---- MODULE Spec2Model ----
(***************************************************************************)
(* Validation and representation layer of the course-catalog models:      *)
(* models/course.py (CourseBase, CourseCreate, CourseUpdate, CourseRead)  *)
(* and models/department.py (DepartmentBase, DepartmentCreate,            *)
(* DepartmentUpdate, DepartmentRead).                                      *)
(*                                                                         *)
(* Strings are sequences of one-character strings.  A raw (untrusted)     *)
(* value is a record [t, s, n, items]: t is its JSON type ("absent" when  *)
(* the key is not in the payload, "null", "str", "int", "list"), s the    *)
(* characters of a string, n the number of an int, items the elements of  *)
(* a list.  A payload maps each field name to a raw value.                *)
(***************************************************************************)
EXTENDS Integers, Sequences, FiniteSets, TLC

VARIABLES
    phase,    \* of the draft: "Draft", "Validated", "Rejected"
    kind,     \* the model class the draft is validated as
    raw,      \* the untrusted payload handed to the constructor
    result,   \* outcome of the validation of raw
    store,    \* the *Read records materialized so far, each "Stored" or "Updated"
    clock,    \* the wall clock read by datetime.now(timezone.utc)
    issued    \* the identifiers uuid4 has handed out

vars == <<phase, kind, raw, result, store, clock, issued>>

-----------------------------------------------------------------------------
(* Bounds of the model *)

\* Longest courses_list drawn for a department payload.
MaxCourses == 2
\* Most *Read records materialized from one validated Create.
MaxRecords == 2
\* Last instant the wall clock reaches.
MaxClock == 2

-----------------------------------------------------------------------------
(* Characters and raw values *)

Upper == {"A","B","C","D","E","F","G","H","I","J","K","L","M",
          "N","O","P","Q","R","S","T","U","V","W","X","Y","Z"}
Lower == {"a","b","c","d","e","f","g","h","i","j","k","l","m",
          "n","o","p","q","r","s","t","u","v","w","x","y","z"}
Digit == {"0","1","2","3","4","5","6","7","8","9"}

Absent == [t |-> "absent", s |-> <<>>, n |-> 0, items |-> <<>>]
Null == [t |-> "null", s |-> <<>>, n |-> 0, items |-> <<>>]
Str(chars) == [t |-> "str", s |-> chars, n |-> 0, items |-> <<>>]
Int_(k) == [t |-> "int", s |-> <<>>, n |-> k, items |-> <<>>]
List_(elems) == [t |-> "list", s |-> <<>>, n |-> 0, items |-> elems]

-----------------------------------------------------------------------------
(* String patterns: StringConstraints(pattern=...) is a regex search, so   *)
(* only the anchors of the pattern make it a full match.                   *)

RECURSIVE MatchEnds(_, _, _, _)
\* The positions at which atoms k.. of a pattern can end when they start
\* after the first pos characters of s.  max = -1 is an unbounded repeat.
MatchEnds(atoms, k, s, pos) ==
    IF k > Len(atoms) THEN {pos}
    ELSE LET a == atoms[k]
             hi == IF a.max = -1 THEN Len(s) ELSE a.max
             runs == {c \in a.min..hi :
                         /\ pos + c <= Len(s)
                         /\ \A i \in 1..c : s[pos + i] \in a.cls}
         IN UNION {MatchEnds(atoms, k + 1, s, pos + c) : c \in runs}

\* pattern.is_match(s): some start offset at which the pattern matches.
IsMatch(p, s) ==
    \E st \in 0..Len(s) :
        /\ p.anchorStart => st = 0
        /\ \E e \in MatchEnds(p.atoms, 1, s, st) : p.anchorEnd => e = Len(s)

\* r"^[A-Z]{4}\d{4}[A-Z]" : the pattern with its end anchor forgotten.
CourseNumberPatternNoEnd ==
    [anchorStart |-> TRUE,
     atoms |-> << [cls |-> Upper, min |-> 4, max |-> 4],
                  [cls |-> Digit, min |-> 4, max |-> 4],
                  [cls |-> Upper, min |-> 1, max |-> 1] >>,
     anchorEnd |-> FALSE]

\* r"^[A-Z]{4}\d{4}[A-Z]$"
CourseNumberPattern ==
    [anchorStart |-> TRUE,
     atoms |-> << [cls |-> Upper, min |-> 4, max |-> 4],
                  [cls |-> Digit, min |-> 4, max |-> 4],
                  [cls |-> Upper, min |-> 1, max |-> 1] >>,
     anchorEnd |-> TRUE]

\* models/person.py is not among the sources; the UNI grammar is the one
\* the specification gives: lowercase letters followed by digits.
UNIPattern ==
    [anchorStart |-> TRUE,
     atoms |-> << [cls |-> Lower, min |-> 1, max |-> -1],
                  [cls |-> Digit, min |-> 1, max |-> -1] >>,
     anchorEnd |-> TRUE]

-----------------------------------------------------------------------------
(* Field validators (pydantic, lax mode).  Each returns [ok, value].       *)

Good(v) == [ok |-> TRUE, value |-> v]
Bad == [ok |-> FALSE, value |-> Null]

\* str: only a string is a string; the value is kept as it is (no strip,
\* no case change).
ValidateStr(v) == IF v.t = "str" THEN Good(v) ELSE Bad

\* Annotated[str, StringConstraints(pattern=...)]
ValidatePattern(p, v) ==
    IF v.t = "str" /\ IsMatch(p, v.s) THEN Good(v) ELSE Bad

RECURSIVE DigitsValue(_)
\* The number a string of decimal digits denotes.
DigitsValue(s) ==
    IF Len(s) = 0 THEN 0
    ELSE 10 * DigitsValue(SubSeq(s, 1, Len(s) - 1))
            + (CHOOSE d \in 0..9 : ToString(d) = s[Len(s)])

\* int: an int is kept; a string of digits is parsed to the int it denotes.
ValidateInt(v) ==
    CASE v.t = "int" -> Good(v)
      [] v.t = "str" /\ Len(v.s) > 0 /\ (\A i \in 1..Len(v.s) : v.s[i] \in Digit)
            -> Good(Int_(DigitsValue(v.s)))
      [] OTHER -> Bad

\* The characters of s before its first "@" (all of s when it has none).
RECURSIVE LocalPart(_)
LocalPart(s) ==
    IF Len(s) = 0 \/ Head(s) = "@" THEN <<>>
    ELSE <<Head(s)>> \o LocalPart(Tail(s))

\* EmailStr: local-part "@" domain, one "@", a domain of dot-separated
\* non-empty labels with at least one dot.
ValidateEmail(v) ==
    IF v.t # "str" THEN Bad
    ELSE LET s == v.s
             local == LocalPart(s)
             dom == SubSeq(s, Len(local) + 2, Len(s))
         IN IF /\ Len(local) > 0
               /\ Len(local) < Len(s)
               /\ Len(dom) > 0
               /\ \A i \in 1..Len(dom) : dom[i] # "@"
               /\ \E i \in 1..Len(dom) : dom[i] = "."
               /\ dom[1] # "." /\ dom[Len(dom)] # "."
               /\ \A i \in 1..(Len(dom) - 1) : ~(dom[i] = "." /\ dom[i + 1] = ".")
            THEN Good(v) ELSE Bad

-----------------------------------------------------------------------------
(* Model classes: a class is the sequence of its fields in declaration     *)
(* order.  required: declared with Field(...), so a missing key is an      *)
(* error; otherwise the default is None.  nullable: declared Optional[..]. *)

Fld(name, type, required, nullable) ==
    [name |-> name, type |-> type, required |-> required, nullable |-> nullable]

CourseFieldNames == {"course_number", "name", "professor_uni", "credits", "strength"}
DepartmentFieldNames ==
    {"department_code", "name", "head_of_department", "courses_list", "email"}

\* CourseBase with professor_uni declared Optional[UNIType] = None.
CourseBaseFieldsOptionalUni ==
    << Fld("course_number", "CourseNumberType", TRUE, FALSE),
       Fld("name", "str", TRUE, FALSE),
       Fld("professor_uni", "UNIType", FALSE, TRUE),
       Fld("credits", "int", TRUE, FALSE),
       Fld("strength", "int", TRUE, FALSE) >>

\* CourseBase with name declared with min_length=1.
CourseBaseFieldsNonEmptyName ==
    << Fld("course_number", "CourseNumberType", TRUE, FALSE),
       Fld("name", "NonEmptyStr", TRUE, FALSE),
       Fld("professor_uni", "UNIType", TRUE, FALSE),
       Fld("credits", "int", TRUE, FALSE),
       Fld("strength", "int", TRUE, FALSE) >>

CourseBaseFields ==
    << Fld("course_number", "CourseNumberType", TRUE, FALSE),
       Fld("name", "str", TRUE, FALSE),
       Fld("professor_uni", "UNIType", TRUE, FALSE),
       Fld("credits", "int", TRUE, FALSE),
       Fld("strength", "int", TRUE, FALSE) >>

\* CourseCreate(CourseBase) adds no field.
CourseCreateFields == CourseBaseFields

CourseUpdateFields ==
    << Fld("course_number", "UNIType", FALSE, TRUE),
       Fld("name", "str", FALSE, TRUE),
       Fld("credits", "int", FALSE, TRUE),
       Fld("professor_uni", "UNIType", TRUE, TRUE),
       Fld("strength", "int", FALSE, TRUE) >>

\* DepartmentBase with courses_list declared List[dict].
DepartmentBaseFieldsPlainList ==
    << Fld("department_code", "str", TRUE, FALSE),
       Fld("name", "str", TRUE, FALSE),
       Fld("head_of_department", "UNIType", TRUE, FALSE),
       Fld("courses_list", "List[dict]", TRUE, FALSE),
       Fld("email", "EmailStr", TRUE, FALSE) >>

DepartmentBaseFields ==
    << Fld("department_code", "str", TRUE, FALSE),
       Fld("name", "str", TRUE, FALSE),
       Fld("head_of_department", "UNIType", TRUE, FALSE),
       Fld("courses_list", "List[CourseBase]", TRUE, FALSE),
       Fld("email", "EmailStr", TRUE, FALSE) >>

\* DepartmentCreate(DepartmentBase) adds no field.
DepartmentCreateFields == DepartmentBaseFields

DepartmentUpdateFields ==
    << Fld("department_code", "str", TRUE, TRUE),
       Fld("name", "str", TRUE, TRUE),
       Fld("head_of_department", "UNIType", TRUE, TRUE),
       Fld("courses_list", "List[CourseBase]", TRUE, TRUE),
       Fld("email", "EmailStr", TRUE, TRUE) >>

-----------------------------------------------------------------------------
(* Model validation.  An error is [field, index, sub, type]: the field,    *)
(* and for an element of a list field its 0-based index and the element's  *)
(* own failing field (index = -1, sub = "" otherwise).                     *)

Err(field, index, sub, type) ==
    [field |-> field, index |-> index, sub |-> sub, type |-> type]

NamesOf(fields) == {fields[i].name : i \in 1..Len(fields)}

RECURSIVE ValidateFrom(_, _, _, _)
RECURSIVE ValidateType(_, _)
RECURSIVE ValidateItems(_, _)

\* The fields k.. of a class validated against a payload after the earlier
\* ones gave acc = [values, fields_set, errors]: a field in error adds its
\* errors and validation goes on with the next field.
ValidateFrom(fields, k, payload, acc) ==
    IF k > Len(fields) THEN acc
    ELSE LET f == fields[k]
             v == payload[f.name]
             r == ValidateType(f.type, v)
             next ==
                 CASE v.t = "absent" /\ f.required ->
                        [acc EXCEPT !.errors = @ \o <<Err(f.name, -1, "", "missing")>>]
                   [] v.t = "absent" /\ ~f.required -> acc
                   [] v.t = "null" /\ f.nullable ->
                        [acc EXCEPT !.fields_set = @ \cup {f.name}]
                   [] OTHER ->
                        IF r.ok
                        THEN [acc EXCEPT !.values[f.name] = r.value,
                                         !.fields_set = @ \cup {f.name}]
                        ELSE [acc EXCEPT !.errors = @ \o
                                 [i \in 1..Len(r.errs) |->
                                     Err(f.name, r.errs[i].index, r.errs[i].sub, "invalid")]]
         IN ValidateFrom(fields, k + 1, payload, next)

\* model_validate: every field is validated; the errors of all of them are
\* raised together, and a model is built only when there are none.
ValidateModel(fields, payload) ==
    LET acc == ValidateFrom(fields, 1, payload,
                   [values |-> [n \in NamesOf(fields) |-> Null],
                    fields_set |-> {},
                    errors |-> <<>>])
    IN IF Len(acc.errors) = 0
       THEN [ok |-> TRUE, model |-> {acc.values},
             fields_set |-> acc.fields_set, errors |-> <<>>]
       ELSE [ok |-> FALSE, model |-> {}, fields_set |-> {}, errors |-> acc.errors]

\* The elements of a List[CourseBase], each validated as a CourseBase:
\* [values, errs], errs the (index, field) of every failure of every element.
ValidateItems(items, i) ==
    IF i > Len(items) THEN [values |-> <<>>, errs |-> <<>>]
    ELSE LET r == ValidateModel(CourseBaseFields, items[i])
             rest == ValidateItems(items, i + 1)
             mine == [j \in 1..Len(r.errors) |->
                         [index |-> i - 1, sub |-> r.errors[j].field]]
         IN [values |-> (IF r.ok THEN <<CHOOSE m \in r.model : TRUE>> ELSE <<>>)
                            \o rest.values,
             errs |-> mine \o rest.errs]

Whole == <<[index |-> -1, sub |-> ""]>>
Lift(r) == [ok |-> r.ok, value |-> r.value, errs |-> IF r.ok THEN <<>> ELSE Whole]

\* One value validated as a field type: [ok, value, errs].
ValidateType(type, v) ==
    CASE type = "str" -> Lift(ValidateStr(v))
      [] type = "NonEmptyStr" ->
            Lift(IF v.t = "str" /\ Len(v.s) >= 1 THEN Good(v) ELSE Bad)
      [] type = "int" -> Lift(ValidateInt(v))
      [] type = "CourseNumberType" -> Lift(ValidatePattern(CourseNumberPattern, v))
      [] type = "UNIType" -> Lift(ValidatePattern(UNIPattern, v))
      [] type = "EmailStr" -> Lift(ValidateEmail(v))
      [] type = "List[dict]" -> Lift(IF v.t = "list" THEN Good(v) ELSE Bad)
      [] type = "List[CourseBase]" ->
            IF v.t # "list" THEN Lift(Bad)
            ELSE LET r == ValidateItems(v.items, 1)
                 IN IF Len(r.errs) = 0
                    THEN [ok |-> TRUE, value |-> List_(r.values), errs |-> <<>>]
                    ELSE [ok |-> FALSE, value |-> Null, errs |-> r.errs]

-----------------------------------------------------------------------------
(* Constructors of the payload classes *)

\* A CourseCreate whose validation raises at the first field in error.
CourseCreateFirstError(payload) ==
    LET r == ValidateModel(CourseCreateFields, payload)
    IN [r EXCEPT !.errors = IF Len(@) = 0 THEN @ ELSE <<Head(@)>>]

CourseCreate(payload) == ValidateModel(CourseCreateFields, payload)

\* A CourseUpdate that keeps as set only the fields given a non-null value.
CourseUpdateNullAsUnset(payload) ==
    LET r == ValidateModel(CourseUpdateFields, payload)
    IN [r EXCEPT !.fields_set = {f \in @ : payload[f].t # "null"}]

CourseUpdate(payload) == ValidateModel(CourseUpdateFields, payload)

DepartmentCreate(payload) == ValidateModel(DepartmentCreateFields, payload)

DepartmentUpdate(payload) == ValidateModel(DepartmentUpdateFields, payload)

-----------------------------------------------------------------------------
(* Read models: the base fields plus id, created_at, updated_at, each with *)
(* a default factory that runs only when the caller supplies no value      *)
(* (-1 below).  The factories run in declaration order: uuid4, then        *)
(* datetime.now at t1 for created_at, then datetime.now at t2 for          *)
(* updated_at.  uuid4 yields an identifier never handed out before         *)
(* (collisions are taken to be impossible).                                *)

\* id = Field(default_factory=uuid4) run even when the caller supplies an id.
ServerFieldsRegenerateId(given, fresh, t1, t2) ==
    [id |-> fresh,
     created_at |-> IF given.created_at = -1 THEN t1 ELSE given.created_at,
     updated_at |-> IF given.updated_at = -1 THEN t2 ELSE given.updated_at]

\* updated_at = Field(default=datetime.now(timezone.utc)): the clock is read
\* once, when the module is imported (instant 0).
ServerFieldsImportTimeDefault(given, fresh, t1, t2) ==
    [id |-> IF given.id = -1 THEN fresh ELSE given.id,
     created_at |-> IF given.created_at = -1 THEN t1 ELSE given.created_at,
     updated_at |-> IF given.updated_at = -1 THEN 0 ELSE given.updated_at]

\* updated_at declared before created_at.
ServerFieldsSwapped(given, fresh, t1, t2) ==
    [id |-> IF given.id = -1 THEN fresh ELSE given.id,
     created_at |-> IF given.created_at = -1 THEN t2 ELSE given.created_at,
     updated_at |-> IF given.updated_at = -1 THEN t1 ELSE given.updated_at]

ServerFields(given, fresh, t1, t2) ==
    [id |-> IF given.id = -1 THEN fresh ELSE given.id,
     created_at |-> IF given.created_at = -1 THEN t1 ELSE given.created_at,
     updated_at |-> IF given.updated_at = -1 THEN t2 ELSE given.updated_at]

NotGiven == [id |-> -1, created_at |-> -1, updated_at |-> -1]

\* The set holding the read model built from a payload of base fields and
\* the server fields given, empty when the base fields do not validate.
ReadModel(class, baseFields, payload, given, fresh, t1, t2) ==
    LET sf == ServerFields(given, fresh, t1, t2)
    IN {[class |-> class, fields |-> m, id |-> sf.id,
         created_at |-> sf.created_at, updated_at |-> sf.updated_at,
         state |-> "Stored"] : m \in ValidateModel(baseFields, payload).model}

CourseRead(payload, given, fresh, t1, t2) ==
    ReadModel("CourseRead", CourseBaseFields, payload, given, fresh, t1, t2)

DepartmentRead(payload, given, fresh, t1, t2) ==
    ReadModel("DepartmentRead", DepartmentBaseFields, payload, given, fresh, t1, t2)

-----------------------------------------------------------------------------
(* The payloads drawn *)

COMS4153W == <<"C","O","M","S","4","1","5","3","W">>
COMS4995W == <<"C","O","M","S","4","9","9","5","W">>
CloudComputing == <<"C","l","o","u","d">>
DeepLearning == <<"D","e","e","p">>
dj2390 == <<"d","j","2","3","9","0">>
ab2312 == <<"a","b","2","3","1","2">>
csEmail == <<"c","s","@","c","u",".","e","d","u">>
infoEmail == <<"i","@","i","e","o","r",".","c","u",".","e","d","u">>
notAnEmail == <<"n","o","t","-","a","n","-","e","m","a","i","l">>

\* Strings around the course-number format: the example with one character
\* replaced, cut short, or extended at either end, and the malformed
\* numbers of the specification.
CourseNumberStrings ==
    LET repl == {"Q", "a", "7", "-"}
        \* a character of another class than position i asks for
        wrong(i) == IF COMS4153W[i] \in Upper THEN {"a", "7", "-"} ELSE {"Q", "a", "-"}
    IN UNION {{[COMS4153W EXCEPT ![i] = c] : c \in wrong(i)} : i \in 1..Len(COMS4153W)}
       \cup {SubSeq(COMS4153W, 1, k) : k \in 0..Len(COMS4153W)}
       \cup {COMS4153W \o <<c>> : c \in repl}
       \cup {<<c>> \o COMS4153W : c \in repl}
       \cup {<<"c","o","m","s","4","1","5","3","w">>,
             <<"C","O","M","S","4","1","5","W">>,
             <<"C","O","M","S","4","1","5","3","3","W">>,
             <<"c","s","1","0","1">>, dj2390}

UniStrings ==
    {dj2390, <<"1","2","3">>, <<"d","j">>, <<>>,
     <<"D","J","2","3","9","0">>, <<"d","j","2","3","9","0","x">>,
     <<"2","3","d","j">>, COMS4153W}

NameStrings == {CloudComputing, <<>>, <<" ">>}

EmailStrings ==
    {csEmail, notAnEmail, <<>>, <<"c","s","@">>, <<"@","c","u",".","e">>,
     <<"c","s","@","c","u">>, <<"c","@","d","@","c","u",".","e">>,
     <<"c","s","@",".","e","d","u">>, <<"c","s","@","c","u",".">>,
     <<"c","s","@","c",".",".","e">>}

NonStrings == {Absent, Null, Int_(5), List_(<<>>)}
IntValues == {Absent, Null, Int_(-1), Str(<<"4">>), Str(<<"x">>),
              Str(<<"1","x">>), Str(<<>>), List_(<<>>)}

ValidCourse ==
    [course_number |-> Str(COMS4153W), name |-> Str(CloudComputing),
     professor_uni |-> Str(dj2390), credits |-> Int_(3), strength |-> Int_(120)]

\* Course payloads in which every field is, independently, valid, invalid
\* or missing.
CourseProduct ==
    [course_number : {Absent, Str(COMS4153W), Str(<<"c","s","1","0","1">>)},
     name : {Absent, Str(<<>>), Str(CloudComputing), Int_(5)},
     professor_uni : {Absent, Str(dj2390), Str(<<"1","2","3">>)},
     credits : {Absent, Int_(3), Str(<<"x">>)},
     strength : {Absent, Int_(120), Null}]

\* The valid course with one field replaced by each value drawn for it.
CourseVariants ==
    {[ValidCourse EXCEPT !.course_number = v] :
        v \in NonStrings \cup {Str(s) : s \in CourseNumberStrings}}
    \cup {[ValidCourse EXCEPT !.name = v] :
        v \in NonStrings \cup {Str(s) : s \in NameStrings}}
    \cup {[ValidCourse EXCEPT !.professor_uni = v] :
        v \in NonStrings \cup {Str(s) : s \in UniStrings}}
    \cup {[ValidCourse EXCEPT !.credits = v] : v \in IntValues}
    \cup {[ValidCourse EXCEPT !.strength = v] : v \in IntValues \ {Int_(-1)}}

CourseCreatePayloads == CourseProduct \cup CourseVariants

NoCourseFields == [f \in CourseFieldNames |-> Absent]

\* Update payloads: every field absent, null, or given one of two values.
CourseUpdatePayloads ==
    [course_number : {Absent, Null, Str(COMS4995W), Str(ab2312)},
     name : {Absent, Null, Str(DeepLearning), Int_(5)},
     credits : {Absent, Null, Int_(4), Str(<<"x">>)},
     professor_uni : {Absent, Null, Str(ab2312), Str(<<"1","2","3">>)},
     strength : {Absent, Null, Int_(60), Str(<<"x">>)}]
    \cup {[NoCourseFields EXCEPT !.course_number = Str(s)] : s \in CourseNumberStrings}
    \cup {[NoCourseFields EXCEPT !.course_number = Str(s), !.professor_uni = Str(dj2390)] :
            s \in CourseNumberStrings \cup UniStrings}

\* The elements drawn for a courses_list.
CourseItems ==
    {ValidCourse,
     [ValidCourse EXCEPT !.course_number = Str(<<"c","s","1","0","1">>)],
     [ValidCourse EXCEPT !.name = Absent, !.credits = Str(<<"x">>)]}

CourseLists == UNION {[1..k -> CourseItems] : k \in 0..MaxCourses}

ValidDepartment ==
    [department_code |-> Str(<<"C","O","M","S">>), name |-> Str(<<"C","S">>),
     head_of_department |-> Str(<<"s","f","2","3","0","3">>),
     courses_list |-> List_(<<ValidCourse>>), email |-> Str(csEmail)]

DepartmentCreatePayloads ==
    [department_code : {Absent, Str(<<"C","O","M","S">>), Int_(5)},
     name : {Absent, Str(<<"C","S">>), Null},
     head_of_department : {Absent, Str(<<"s","f","2","3","0","3">>), Str(<<"S","F">>)},
     courses_list : {Absent, Null, Str(<<"x">>)} \cup {List_(l) : l \in CourseLists},
     email : {Absent, Str(csEmail), Str(notAnEmail)}]
    \cup {[ValidDepartment EXCEPT !.email = v] :
            v \in NonStrings \cup {Str(s) : s \in EmailStrings}}
    \cup {[ValidDepartment EXCEPT !.name = v] :
            v \in NonStrings \cup {Str(<<>>)}}

DepartmentUpdatePayloads ==
    [department_code : {Absent, Null, Str(<<"I","E","O","R">>)},
     name : {Absent, Null, Str(<<"I","E">>)},
     head_of_department : {Absent, Null, Str(<<"a","j","9","8","4","3">>), Str(<<"A","J">>)},
     courses_list : {Absent, Null, List_(<<>>), List_(<<ValidCourse>>),
                     List_(<<[ValidCourse EXCEPT !.credits = Null]>>)},
     email : {Absent, Null, Str(infoEmail), Str(notAnEmail)}]

\* The update payloads sent for a stored record.
CoursePatches ==
    {[NoCourseFields EXCEPT !.professor_uni = Str(ab2312)],
     [NoCourseFields EXCEPT !.professor_uni = Str(ab2312), !.name = Str(DeepLearning)],
     [NoCourseFields EXCEPT !.strength = Int_(60)],
     [NoCourseFields EXCEPT !.professor_uni = Null, !.name = Str(DeepLearning)],
     [NoCourseFields EXCEPT !.professor_uni = Str(ab2312), !.course_number = Str(ab2312)],
     [NoCourseFields EXCEPT !.professor_uni = Str(ab2312), !.course_number = Str(COMS4995W)]}

NewDepartment ==
    [department_code |-> Str(<<"I","E","O","R">>), name |-> Str(<<"I","E">>),
     head_of_department |-> Str(<<"a","j","9","8","4","3">>),
     courses_list |-> List_(<<>>), email |-> Str(infoEmail)]

DepartmentPatches ==
    {NewDepartment,
     [NewDepartment EXCEPT !.courses_list = List_(<<ValidCourse>>)],
     [NewDepartment EXCEPT !.name = Null],
     [NewDepartment EXCEPT !.courses_list =
         List_(<<[ValidCourse EXCEPT !.credits = Null]>>)],
     [f \in DepartmentFieldNames |-> IF f = "name" THEN Str(<<"I","E">>) ELSE Absent]}

\* The patches that validate: what the persistence collaborator is handed.
ValidCoursePatches == {u \in {CourseUpdate(p) : p \in CoursePatches} : u.ok}
ValidDepartmentPatches == {u \in {DepartmentUpdate(p) : p \in DepartmentPatches} : u.ok}

Ids == 1..(MaxRecords + 1)

NoResult == [ok |-> FALSE, model |-> {}, fields_set |-> {}, errors |-> <<>>]

-----------------------------------------------------------------------------
(* The lifecycle: Draft -> Validated | Rejected; a validated Create is     *)
(* materialized as *Read records (Stored), which updates re-materialize    *)
(* (Updated).                                                              *)

Init ==
    /\ phase = "Draft"
    /\ \/ kind = "CourseCreate" /\ raw \in CourseCreatePayloads
       \/ kind = "CourseUpdate" /\ raw \in CourseUpdatePayloads
       \/ kind = "DepartmentCreate" /\ raw \in DepartmentCreatePayloads
       \/ kind = "DepartmentUpdate" /\ raw \in DepartmentUpdatePayloads
    /\ result = NoResult
    /\ store = <<>>
    /\ clock = 0
    /\ issued = {}

\* CourseCreate(**raw): validation runs at construction time.
ConstructCourseCreate ==
    /\ phase = "Draft"
    /\ kind = "CourseCreate"
    /\ result' = CourseCreate(raw)
    /\ phase' = IF result'.ok THEN "Validated" ELSE "Rejected"
    /\ UNCHANGED <<kind, raw, store, clock, issued>>

\* CourseUpdate(**raw)
ConstructCourseUpdate ==
    /\ phase = "Draft"
    /\ kind = "CourseUpdate"
    /\ result' = CourseUpdate(raw)
    /\ phase' = IF result'.ok THEN "Validated" ELSE "Rejected"
    /\ UNCHANGED <<kind, raw, store, clock, issued>>

\* DepartmentCreate(**raw)
ConstructDepartmentCreate ==
    /\ phase = "Draft"
    /\ kind = "DepartmentCreate"
    /\ result' = DepartmentCreate(raw)
    /\ phase' = IF result'.ok THEN "Validated" ELSE "Rejected"
    /\ UNCHANGED <<kind, raw, store, clock, issued>>

\* DepartmentUpdate(**raw)
ConstructDepartmentUpdate ==
    /\ phase = "Draft"
    /\ kind = "DepartmentUpdate"
    /\ result' = DepartmentUpdate(raw)
    /\ phase' = IF result'.ok THEN "Validated" ELSE "Rejected"
    /\ UNCHANGED <<kind, raw, store, clock, issued>>

\* uuid4(): an identifier never handed out before (identifiers are only
\* compared for equality, so the least unused one stands for any of them).
Uuid4 == CHOOSE x \in Ids \ issued : \A y \in Ids \ issued : x <= y

\* The instants datetime.now(timezone.utc) can return after instant c was
\* read: the clock does not run backwards.
Now(c) == {n \in {c, c + 1} : n <= MaxClock}

\* CourseRead(**create.model_dump()): no id and no timestamp is supplied;
\* the clock may advance between the two datetime.now calls.
MaterializeCourseRead ==
    /\ phase = "Validated"
    /\ kind = "CourseCreate"
    /\ Len(store) < MaxRecords
    /\ \E m \in result.model :
       \E t1 \in Now(clock) : \E t2 \in Now(t1) :
       \E rec \in CourseRead(m, NotGiven, Uuid4, t1, t2) :
          /\ store' = Append(store, rec)
          /\ issued' = issued \cup {Uuid4}
          /\ clock' = t2
    /\ UNCHANGED <<phase, kind, raw, result>>

\* DepartmentRead(**create.model_dump())
MaterializeDepartmentRead ==
    /\ phase = "Validated"
    /\ kind = "DepartmentCreate"
    /\ Len(store) < MaxRecords
    /\ \E m \in result.model :
       \E t1 \in Now(clock) : \E t2 \in Now(t1) :
       \E rec \in DepartmentRead(m, NotGiven, Uuid4, t1, t2) :
          /\ store' = Append(store, rec)
          /\ issued' = issued \cup {Uuid4}
          /\ clock' = t2
    /\ UNCHANGED <<phase, kind, raw, result>>

\* The stored fields with the fields a validated patch sets laid over them.
Merge(fields, patch) ==
    LET m == CHOOSE x \in patch.model : TRUE
    IN [f \in DOMAIN fields |-> IF f \in patch.fields_set THEN m[f] ELSE fields[f]]

\* An update of course record i by a validated patch: the merged fields are
\* re-materialized with the record's id and created_at and the current
\* instant as updated_at.
UpdateCourse ==
    \E i \in 1..Len(store), patch \in ValidCoursePatches, t \in Now(clock) :
        /\ store[i].class = "CourseRead"
        /\ \E rec \in CourseRead(Merge(store[i].fields, patch),
                                 [id |-> store[i].id,
                                  created_at |-> store[i].created_at,
                                  updated_at |-> t],
                                 Uuid4, t, t) :
              /\ store' = [store EXCEPT ![i] = [rec EXCEPT !.state = "Updated"]]
              /\ clock' = t
        /\ UNCHANGED <<phase, kind, raw, result, issued>>

\* The same update of a department record.
UpdateDepartment ==
    \E i \in 1..Len(store), patch \in ValidDepartmentPatches, t \in Now(clock) :
        /\ store[i].class = "DepartmentRead"
        /\ \E rec \in DepartmentRead(Merge(store[i].fields, patch),
                                     [id |-> store[i].id,
                                      created_at |-> store[i].created_at,
                                      updated_at |-> t],
                                     Uuid4, t, t) :
              /\ store' = [store EXCEPT ![i] = [rec EXCEPT !.state = "Updated"]]
              /\ clock' = t
        /\ UNCHANGED <<phase, kind, raw, result, issued>>

Next ==
    \/ ConstructCourseCreate
    \/ ConstructCourseUpdate
    \/ ConstructDepartmentCreate
    \/ ConstructDepartmentUpdate
    \/ MaterializeCourseRead
    \/ MaterializeDepartmentRead
    \/ UpdateCourse
    \/ UpdateDepartment

Spec == Init /\ [][Next]_vars

-----------------------------------------------------------------------------
(* The formats and constraints as the specification states them *)

\* 4 uppercase letters, 4 digits, 1 uppercase letter, and nothing else.
IsCourseNumber(s) ==
    /\ Len(s) = 9
    /\ \A i \in 1..4 : s[i] \in Upper
    /\ \A i \in 5..8 : s[i] \in Digit
    /\ s[9] \in Upper

\* Lowercase letters followed by digits.
IsUni(s) ==
    \E k \in 1..(Len(s) - 1) :
        /\ \A i \in 1..k : s[i] \in Lower
        /\ \A i \in (k + 1)..Len(s) : s[i] \in Digit

\* An integer, or a string that reads as one.
IsInteger(v) ==
    \/ v.t = "int"
    \/ v.t = "str" /\ Len(v.s) > 0 /\ \A i \in 1..Len(v.s) : v.s[i] \in Digit

\* The constraint of a Course field on a value that is present.
MeetsCourseConstraint(f, v) ==
    CASE f = "course_number" -> v.t = "str" /\ IsCourseNumber(v.s)
      [] f = "name" -> v.t = "str"
      [] f = "professor_uni" -> v.t = "str" /\ IsUni(v.s)
      [] f \in {"credits", "strength"} -> IsInteger(v)

\* The fields of a course payload that are missing or violate their constraint.
FailingFields(payload) ==
    {f \in CourseFieldNames :
        payload[f].t = "absent" \/ ~MeetsCourseConstraint(f, payload[f])}

ErrorFields(r) == {r.errors[i].field : i \in 1..Len(r.errors)}

Constructed(k) == kind = k /\ phase \in {"Validated", "Rejected"}

Records == {store[i] : i \in 1..Len(store)}

-----------------------------------------------------------------------------
(* Claims *)

\* C1: a CourseCreate validates its course_number iff the string matches
\* ^[A-Z]{4}\d{4}[A-Z]$ in full; on success the stored course_number is the
\* input unchanged, otherwise there is an error on field course_number.
C1_CourseNumberFormat ==
    Constructed("CourseCreate") =>
        LET v == raw.course_number
            matches == v.t = "str" /\ IsCourseNumber(v.s)
        IN /\ matches <=> "course_number" \notin ErrorFields(result)
           /\ result.ok => matches /\ \A m \in result.model : m.course_number = v

C1_Witness ==
    /\ Constructed("CourseCreate")
    /\ result.ok
    /\ raw.course_number = Str(COMS4153W)
    /\ \A m \in result.model : m.course_number = Str(COMS4153W)

\* C2 (as claimed): in a CourseUpdate that validates, every field given a
\* value satisfies the constraint the same field has in CourseCreate; a
\* course_number given matches the course-number format.
C2_PresentFieldsMeetCreateConstraints ==
    (Constructed("CourseUpdate") /\ result.ok) =>
        \A i \in 1..Len(CourseCreateFields) :
            LET f == CourseCreateFields[i]
                v == raw[f.name]
            IN v.t \notin {"absent", "null"} => ValidateType(f.type, v).ok

\* C3 (as claimed): every field of an update payload is optional: the
\* CourseUpdate {"strength": 60} validates with only strength set, and a
\* DepartmentUpdate holding any subset of its fields, each with a valid
\* value, validates with exactly those fields set.
C3_UpdateFieldsOptional ==
    /\ (Constructed("CourseUpdate")
            /\ raw = [NoCourseFields EXCEPT !.strength = Int_(60)])
        => result.ok /\ result.fields_set = {"strength"}
    /\ (Constructed("DepartmentUpdate")
            /\ \A i \in 1..Len(DepartmentCreateFields) :
                  LET f == DepartmentCreateFields[i]
                  IN raw[f.name].t = "absent" \/ ValidateType(f.type, raw[f.name]).ok)
        => /\ result.ok
           /\ result.fields_set = {f \in DepartmentFieldNames : raw[f].t # "absent"}

\* C4: a CourseCreate is built only when no field fails, and the errors
\* raised name exactly the fields that are missing or violate their
\* constraint, all of them and not only the first.
C4_AllErrorsCollected ==
    Constructed("CourseCreate") =>
        /\ ErrorFields(result) = FailingFields(raw)
        /\ FailingFields(raw) # {} =>
              ~result.ok /\ result.model = {} /\ phase = "Rejected" /\ store = <<>>
        /\ FailingFields(raw) = {} => result.ok /\ result.model # {}

C4_Witness ==
    /\ Constructed("CourseCreate")
    /\ Cardinality(FailingFields(raw)) >= 4
    /\ ErrorFields(result) = FailingFields(raw)
    /\ result.model = {}

C6_CoursesListElements ==
    (Constructed("DepartmentCreate") /\ raw.courses_list.t = "list") =>
        LET items == raw.courses_list.items
            failing == UNION {{<<i - 1, f>> : f \in FailingFields(items[i])} :
                                i \in 1..Len(items)}
            reported == {<<result.errors[j].index, result.errors[j].sub>> :
                            j \in {k \in 1..Len(result.errors) :
                                      result.errors[k].field = "courses_list"}}
        IN /\ reported = failing
           /\ failing # {} => ~result.ok /\ result.model = {}
           /\ Len(items) = 0 => "courses_list" \notin ErrorFields(result)

C6_Witness ==
    /\ Constructed("DepartmentCreate")
    /\ ~result.ok
    /\ raw.courses_list.t = "list"
    /\ Len(raw.courses_list.items) = 2
    /\ FailingFields(raw.courses_list.items[1]) = {}
    /\ \E j \in 1..Len(result.errors) :
          /\ result.errors[j].field = "courses_list"
          /\ result.errors[j].index = 1
          /\ result.errors[j].sub = "course_number"

\* C7: every read record has created_at <= updated_at, after creation by
\* the default factories and after every update, and the created_at of a
\* record never changes.
C7_CreatedBeforeUpdated ==
    /\ [](\A r \in Records : r.created_at <= r.updated_at)
    /\ [][\A i \in 1..Len(store) :
            Len(store') >= i /\ store'[i].created_at = store[i].created_at]_vars

C7_Witness ==
    \E r \in Records :
        r.class = "CourseRead" /\ r.state = "Updated" /\ r.created_at < r.updated_at

\* C8: the id of a read record is assigned when the record is created and
\* is the same in every later state: no update regenerates or alters it.
C8_IdAssignedOnce ==
    [][/\ \A i \in 1..Len(store) : Len(store') >= i /\ store'[i].id = store[i].id
       /\ \A i \in (Len(store) + 1)..Len(store') :
             store'[i].id \notin issued /\ store'[i].id \in issued']_vars

C8_Witness ==
    /\ Len(store) = MaxRecords
    /\ \A r \in Records : r.state = "Updated"
    /\ \E r \in Records : r.class = "DepartmentRead"

\* C9 (as claimed): a CourseRead materialized from a validated CourseCreate
\* has the five base fields of the CourseCreate, a fresh id, and created_at
\* equal to updated_at.
C9_CreatedEqualsUpdated ==
    \A i \in 1..Len(store) :
        (store[i].class = "CourseRead" /\ store[i].state = "Stored") =>
            /\ store[i].fields \in result.model
            /\ \A j \in 1..Len(store) : j # i => store[j].id # store[i].id
            /\ store[i].created_at = store[i].updated_at

\* C9 (amended): such a CourseRead has the five base fields of the
\* CourseCreate, a fresh id, and created_at <= updated_at: the two
\* timestamps are separate readings of the clock.
C9_MaterializedCourseRead ==
    \A i \in 1..Len(store) :
        (store[i].class = "CourseRead" /\ store[i].state = "Stored") =>
            /\ store[i].fields \in result.model
            /\ \A j \in 1..Len(store) : j # i => store[j].id # store[i].id
            /\ store[i].id \in issued
            /\ store[i].created_at <= store[i].updated_at

C9_Witness ==
    /\ Len(store) = 2
    /\ \A r \in Records : r.class = "CourseRead" /\ r.state = "Stored"
    /\ \E r \in Records : r.created_at < r.updated_at
    /\ raw.credits = Str(<<"4">>)

\* C10: in a validated CourseUpdate a field absent from the payload is
\* unset, and the same payload with that field given as null yields a
\* different validated update, in which the field is set.
C10_AbsentDiffersFromNull ==
    (Constructed("CourseUpdate") /\ result.ok) =>
        \A f \in CourseFieldNames :
            raw[f].t = "absent" =>
                LET other == CourseUpdate([raw EXCEPT ![f] = Null])
                IN /\ f \notin result.fields_set
                   /\ other.ok => other # result /\ f \in other.fields_set

C10_Witness ==
    /\ Constructed("CourseUpdate")
    /\ result.ok
    /\ raw.name.t = "absent"
    /\ raw.strength = Int_(60)
    /\ result.fields_set = {"professor_uni", "strength"}

====
